---- MODULE Spec2Model ----
(***************************************************************************)
(* Model of the voice-translation client of src/App.tsx: the session       *)
(* lifecycle (toggleSession, startSession, the network callbacks), the     *)
(* playback scheduler kept in nextStartTimeRef / sourcesRef, and the turn  *)
(* aggregator kept in transcriptionBufferRef / transcriptions.             *)
(*                                                                         *)
(* All callbacks run on one control thread. A callback is one action,      *)
(* except where the code awaits: startSession is cut at                    *)
(* `await getUserMedia`, and onmessage at `await decodeAudioData`.         *)
(***************************************************************************)
EXTENDS Integers, Sequences, FiniteSets, TLC

\* ------------------------------------------------------------------ bounds
MaxSessions == 2    \* sessions the user starts
MaxMsgs == 2        \* inbound messages delivered to onmessage, all sessions
MaxClock == 2       \* ticks of the audio clock
MaxNow == 1         \* ticks of the wall clock (Date.now())
MaxDur == 2         \* longest decoded buffer, in ticks of the audio clock
MaxStarts == 3      \* sessions the user starts, where only the lifecycle runs
MaxFrames == 3      \* capture callbacks of the microphone, all sessions

Sessions == 1..MaxStarts
MsgIds == 1..MaxMsgs
Durations == 1..MaxDur

\* A text is a sequence of characters; a transcript fragment is a text.
Fragments == { <<"a">>, <<" ", "b">>, <<" ">> }

\* An optional field of a message is a sequence of length 0 (absent) or 1.
Opt(S) == { <<>> } \cup { <<x>> : x \in S }

\* LiveServerMessage.serverContent, as onmessage reads it.
Messages ==
  [ inputTranscription : Opt(Fragments),
    outputTranscription : Opt(Fragments),
    turnComplete : BOOLEAN,
    audio : Opt(Durations),
    interrupted : BOOLEAN ]

\* The messages that feed only the playback scheduler, and those that feed
\* only the turn aggregator.
AudioMessages ==
  { m \in Messages : /\ m.inputTranscription = <<>>
                     /\ m.outputTranscription = <<>>
                     /\ ~m.turnComplete
                     /\ (m.audio # <<>> \/ m.interrupted) }
TextMessages ==
  { m \in Messages : m.audio = <<>> /\ ~m.interrupted }

\* Messages that may feed both at once: a user fragment, a turn boundary, a
\* chunk of one tick, an interruption, in every combination.
FrameMessages ==
  { m \in Messages : /\ m.inputTranscription \in Opt({ <<"a">> })
                     /\ m.outputTranscription = <<>>
                     /\ m.audio \in Opt({1}) }

VARIABLES
  isActive,         \* session.isActive
  isConnecting,     \* session.isConnecting
  error,            \* session.error: "null" or the message
  micStream,        \* the micStream state: 0 (null) or the stream's session
  inputAudioContextRef,   \* 0 (null) or the context's session
  outputAudioContextRef,  \* 0 (null) or the context's session
  sessionPromiseRef,      \* 0 (null) or the session of the promise
  nextStartTime,    \* nextStartTimeRef.current
  sources,          \* sourcesRef.current: the set of source nodes
  buffer,           \* transcriptionBufferRef.current: [user, model]
  transcriptions,   \* the transcript log
  \* ---- the environment: devices, network, clocks
  started,          \* number of sessions started so far
  startPc,          \* per session: where startSession is
  net,              \* per session: state of its network session
  micLive,          \* streams whose tracks are live (not stopped)
  inOpen,           \* input audio contexts created and not closed
  outOpen,          \* output audio contexts created and not closed
  ctxOrigin,        \* per output context: audio clock at its creation
  clock,            \* the audio device clock
  now,              \* Date.now()
  msgCount,         \* messages delivered so far; a message's arrival number
  pending,          \* onmessage calls suspended at await decodeAudioData
  node,             \* every source node created: its chunk's arrival number
                    \*   |-> what was scheduled
  \* ---- history, read only by the properties
  schedOrder,       \* arrival numbers of the chunks, in the order scheduled
  intrSeq,          \* arrival number of the last interrupted message handled
  flushes,          \* number of flushes so far (interruptions and cleanups)
  frags,            \* per role: fragments received since the last turnComplete
  turnFrags,        \* per role: the fragments of the turn finalized last
  turns,            \* number of turnComplete signals handled
  appended,         \* number of entries the last turnComplete appended
  userStopped,      \* 0, or the session the user stopped last, until a start
  \* ---- the capture pipeline
  ready,            \* sessions whose connect promise has resolved
  capturing,        \* sessions whose onopen attached a script processor
  frames,           \* capture callbacks so far; a frame's capture number
  deferred,         \* per session: frames waiting in .then for the promise
  sent              \* the frames passed to sendRealtimeInput, in order

vars == << isActive, isConnecting, error, micStream, inputAudioContextRef,
           outputAudioContextRef, sessionPromiseRef, nextStartTime, sources,
           buffer, transcriptions, started, startPc, net, micLive, inOpen,
           outOpen, ctxOrigin, clock, now, msgCount, pending, node,
           schedOrder, intrSeq, flushes, frags, turnFrags, turns,
           appended, userStopped, ready, capturing, frames, deferred, sent >>

sessionVars == << isActive, isConnecting, error >>
deviceVars == << micStream, inputAudioContextRef, outputAudioContextRef,
                 micLive, inOpen, outOpen, ctxOrigin >>
textVars == << buffer, transcriptions, frags, turnFrags, turns, appended >>
audioVars == << nextStartTime, sources, pending, node, schedOrder, intrSeq,
                flushes >>
captureVars == << ready, capturing, frames, deferred, sent >>

Max(a, b) == IF a >= b THEN a ELSE b

\* ctx.currentTime of an output context
currentTime(c) == clock - ctxOrigin[c]

\* String.prototype.trim
RECURSIVE TrimLeft(_)
TrimLeft(s) == IF s # <<>> /\ Head(s) = " " THEN TrimLeft(Tail(s)) ELSE s
RECURSIVE TrimRight(_)
TrimRight(s) ==
  IF s # <<>> /\ s[Len(s)] = " " THEN TrimRight(SubSeq(s, 1, Len(s) - 1)) ELSE s
trim(s) == TrimRight(TrimLeft(s))

\* the concatenation of a sequence of texts
RECURSIVE Concat(_)
Concat(ss) == IF ss = <<>> THEN <<>> ELSE Head(ss) \o Concat(Tail(ss))

NoNode == [st |-> "none", ctx |-> 0, when |-> 0, begin |-> 0, dur |-> 0, epoch |-> 0]
NoPending == [on |-> FALSE, ctx |-> 0, dur |-> 0, interrupted |-> FALSE]
NoText == [user |-> <<>>, model |-> <<>>]

Init ==
  /\ isActive = FALSE
  /\ isConnecting = FALSE
  /\ error = "null"
  /\ micStream = 0
  /\ inputAudioContextRef = 0
  /\ outputAudioContextRef = 0
  /\ sessionPromiseRef = 0
  /\ nextStartTime = 0
  /\ sources = {}
  /\ buffer = NoText
  /\ transcriptions = <<>>
  /\ started = 0
  /\ startPc = [s \in Sessions |-> "idle"]
  /\ net = [s \in Sessions |-> "none"]
  /\ micLive = {}
  /\ inOpen = {}
  /\ outOpen = {}
  /\ ctxOrigin = [s \in Sessions |-> 0]
  /\ clock = 0
  /\ now = 0
  /\ msgCount = 0
  /\ pending = [c \in MsgIds |-> NoPending]
  /\ node = [c \in MsgIds |-> NoNode]
  /\ schedOrder = <<>>
  /\ intrSeq = 0
  /\ flushes = 0
  /\ frags = NoText
  /\ turnFrags = NoText
  /\ turns = 0
  /\ appended = 0
  /\ userStopped = 0
  /\ ready = {}
  /\ capturing = {}
  /\ frames = 0
  /\ deferred = [s \in Sessions |-> <<>>]
  /\ sent = <<>>

\* ------------------------------------------------------ playback scheduler

\* sourcesRef.current.forEach(s => s.stop())
stopAll(nd, S) ==
  [c \in MsgIds |-> IF c \in S THEN [nd[c] EXCEPT !.st = "stopped"] ELSE nd[c]]

\* A flush that forgets to reset the start time
flushKeepsTime(nd, S) ==
  [node |-> stopAll(nd, S), sources |-> {}, nextStartTime |-> nextStartTime]

\* The three statements that flush the scheduler, on an interruption and in
\* cleanupAudio: stop every source of the set, clear the set, reset the time.
flush(nd, S) ==
  [node |-> stopAll(nd, S), sources |-> {}, nextStartTime |-> 0]

\* nextStartTimeRef.current = Math.max(nextStartTimeRef.current, ctx.currentTime)
arrivalStartTime(ns, c) == Max(ns, currentTime(c))

\* The buffer decodeAudioData resolves to: only its duration matters here.
decodeAudioData(d) == d

\* A suspended decode may complete at any later moment, whatever the other
\* decodes in flight do.
DecodeReady(c) == pending[c].on

\* sourceNode.start(when) on context ctx: a start time in the past begins at
\* the context's current time; a closed context renders nothing (-1).
beginTime(ctx, when) ==
  IF ctx \in outOpen THEN Max(when, currentTime(ctx)) ELSE -1

\* ---------------------------------------------------------- turn aggregator

\* A fragment that replaces the buffer instead of being appended to it
replaceText(buf, opt) == IF opt = <<>> THEN buf ELSE Concat(opt)

\* transcriptionBufferRef.current.<role> += <fragment>.text
appendText(buf, opt) == buf \o Concat(opt)

\* Entries for both roles, whatever their texts
turnEntriesUnfiltered(userText, modelText, t) ==
  << [role |-> "user", text |-> userText, timestamp |-> t],
     [role |-> "model", text |-> modelText, timestamp |-> t + 1] >>

\* The entries a turnComplete appends, read at wall-clock time t.
turnEntries(userText, modelText, t) ==
  (IF userText # <<>>
     THEN << [role |-> "user", text |-> userText, timestamp |-> t] >>
     ELSE <<>>)
  \o
  (IF modelText # <<>>
     THEN << [role |-> "model", text |-> modelText, timestamp |-> t + 1] >>
     ELSE <<>>)

\* Buffers that an interrupted signal clears as a turnComplete does
jointClear(buf, m) == IF m.turnComplete \/ m.interrupted THEN NoText ELSE buf

\* transcriptionBufferRef.current at the end of onmessage for message m, given
\* the buffers after the fragments of m were appended: reset after a
\* turnComplete, and touched by nothing else.
bufferAfter(buf, m) == IF m.turnComplete THEN NoText ELSE buf

\* ------------------------------------------------------------- onmessage

\* onmessage of session s, from its entry to its end, or to the await of
\* decodeAudioData when the message carries audio and an output context exists.
OnMessage(s, m) ==
  /\ net[s] = "open"
  /\ msgCount < MaxMsgs
  /\ LET c == msgCount + 1
         buf1 == [user |-> appendText(buffer.user, m.inputTranscription),
                  model |-> appendText(buffer.model, m.outputTranscription)]
         fr1 == [user |-> frags.user \o m.inputTranscription,
                 model |-> frags.model \o m.outputTranscription]
         userText == trim(buf1.user)
         modelText == trim(buf1.model)
         ctx == outputAudioContextRef
     IN /\ msgCount' = c
        /\ IF m.turnComplete
             THEN /\ transcriptions' =
                       IF userText # <<>> \/ modelText # <<>>
                         THEN transcriptions \o turnEntries(userText, modelText, now)
                         ELSE transcriptions
                  /\ buffer' = bufferAfter(buf1, m)
                  /\ frags' = NoText
                  /\ turnFrags' = fr1
                  /\ turns' = turns + 1
                  /\ appended' = Len(transcriptions') - Len(transcriptions)
             ELSE /\ buffer' = bufferAfter(buf1, m)
                  /\ frags' = fr1
                  /\ UNCHANGED << transcriptions, turnFrags, turns, appended >>
        /\ IF m.audio # <<>> /\ ctx # 0
             THEN /\ nextStartTime' = arrivalStartTime(nextStartTime, ctx)
                  /\ pending' = [pending EXCEPT ![c] =
                       [on |-> TRUE, ctx |-> ctx, dur |-> decodeAudioData(m.audio[1]),
                        interrupted |-> m.interrupted]]
                  /\ UNCHANGED << sources, node, intrSeq, flushes >>
             ELSE IF m.interrupted
               THEN LET f == flush(node, sources)
                    IN /\ node' = f.node
                       /\ sources' = f.sources
                       /\ nextStartTime' = f.nextStartTime
                       /\ intrSeq' = c
                       /\ flushes' = flushes + 1
                       /\ UNCHANGED pending
               ELSE UNCHANGED << nextStartTime, sources, node, intrSeq, flushes,
                                 pending >>
  /\ UNCHANGED << captureVars, sessionVars, deviceVars, sessionPromiseRef, started, startPc,
                  net, clock, now, schedOrder, userStopped >>

\* onmessage resumed after await decodeAudioData for the chunk of arrival
\* number c: the source node is created, started and registered, and then the
\* message's interrupted signal is handled.
DecodeDone(c) ==
  /\ DecodeReady(c)
  /\ LET p == pending[c]
         when == nextStartTime
         nd == [st |-> "live", ctx |-> p.ctx, when |-> when,
                begin |-> beginTime(p.ctx, when), dur |-> p.dur,
                epoch |-> flushes]
         node1 == [node EXCEPT ![c] = nd]
         src1 == sources \cup {c}
         ns1 == when + p.dur
     IN /\ pending' = [pending EXCEPT ![c] = NoPending]
        /\ schedOrder' = Append(schedOrder, c)
        /\ IF p.interrupted
             THEN LET f == flush(node1, src1)
                  IN /\ node' = f.node
                     /\ sources' = f.sources
                     /\ nextStartTime' = f.nextStartTime
                     /\ intrSeq' = c
                     /\ flushes' = flushes + 1
             ELSE /\ node' = node1
                  /\ sources' = src1
                  /\ nextStartTime' = ns1
                  /\ UNCHANGED << intrSeq, flushes >>
  /\ UNCHANGED << captureVars, sessionVars, deviceVars, sessionPromiseRef, textVars, started,
                  startPc, net, clock, now, msgCount, userStopped >>

\* await decodeAudioData rejects for the chunk of arrival number c: nothing
\* in onmessage catches it, so the handler ends there; the statements after
\* the await, the handling of the interrupted signal included, do not run.
DecodeFail(c) ==
  /\ DecodeReady(c)
  /\ pending' = [pending EXCEPT ![c] = NoPending]
  /\ UNCHANGED << captureVars, sessionVars, deviceVars, sessionPromiseRef, textVars,
                  started, startPc, net, clock, now, msgCount, userStopped,
                  nextStartTime, sources, node, schedOrder, intrSeq, flushes >>

\* The 'ended' listener of a source node: its buffer has played to the end.
Ended(c) ==
  /\ node[c].st = "live"
  /\ node[c].ctx \in outOpen
  /\ currentTime(node[c].ctx) >= node[c].begin + node[c].dur
  /\ node' = [node EXCEPT ![c].st = "ended"]
  /\ sources' = sources \ {c}
  /\ UNCHANGED << captureVars, sessionVars, deviceVars, sessionPromiseRef, textVars, started,
                  startPc, net, clock, now, msgCount, userStopped,
                  nextStartTime, pending, schedOrder, intrSeq, flushes >>

\* ------------------------------------------------------- session lifecycle

\* cleanupAudio, with the micStream of the render that created the callback
cleanupAudio ==
  /\ inputAudioContextRef' = 0
  /\ inOpen' = inOpen \ {inputAudioContextRef}
  /\ outputAudioContextRef' = 0
  /\ outOpen' = outOpen \ {outputAudioContextRef}
  /\ micStream' = 0
  /\ micLive' = micLive \ {micStream}
  /\ LET f == flush(node, sources)
     IN /\ node' = f.node
        /\ sources' = f.sources
        /\ nextStartTime' = f.nextStartTime
  /\ flushes' = flushes + 1
  /\ UNCHANGED ctxOrigin

\* toggleSession while inactive, and startSession up to await getUserMedia;
\* cap bounds the number of sessions started.
startSession(cap) ==
  /\ ~isConnecting
  /\ ~isActive
  /\ started < cap
  /\ started' = started + 1
  /\ startPc' = [startPc EXCEPT ![started + 1] = "getUserMedia"]
  /\ isConnecting' = TRUE
  /\ error' = "null"
  /\ userStopped' = 0
  /\ UNCHANGED << captureVars, isActive, deviceVars, sessionPromiseRef, textVars, audioVars,
                  net, clock, now, msgCount >>

ToggleStart == startSession(MaxSessions)

\* startSession resumed with the microphone stream: the contexts are created
\* and the network session is requested.
GetUserMediaOk(s) ==
  /\ startPc[s] = "getUserMedia"
  /\ startPc' = [startPc EXCEPT ![s] = "done"]
  /\ micStream' = s
  /\ micLive' = micLive \cup {s}
  /\ inOpen' = inOpen \cup {s}
  /\ outOpen' = outOpen \cup {s}
  /\ ctxOrigin' = [ctxOrigin EXCEPT ![s] = clock]
  /\ inputAudioContextRef' = s
  /\ outputAudioContextRef' = s
  /\ net' = [net EXCEPT ![s] = "connecting"]
  /\ sessionPromiseRef' = s
  /\ UNCHANGED << captureVars, sessionVars, textVars, audioVars, started, clock, now,
                  msgCount, userStopped >>

\* startSession resumed with getUserMedia rejected: the catch block
GetUserMediaFail(s) ==
  /\ startPc[s] = "getUserMedia"
  /\ startPc' = [startPc EXCEPT ![s] = "done"]
  /\ error' = "Failed to connect."
  /\ isConnecting' = FALSE
  /\ UNCHANGED << captureVars, isActive, deviceVars, sessionPromiseRef, textVars, audioVars,
                  started, net, clock, now, msgCount, userStopped >>

\* onopen: the state is set, then the script processor is attached to the
\* input context of this startSession call (createMediaStreamSource throws on
\* a closed context).
OnOpen(s) ==
  /\ net[s] = "connecting"
  /\ net' = [net EXCEPT ![s] = "open"]
  /\ isActive' = TRUE
  /\ isConnecting' = FALSE
  /\ capturing' = IF s \in inOpen THEN capturing \cup {s} ELSE capturing
  /\ UNCHANGED << ready, frames, deferred, sent, error, deviceVars, sessionPromiseRef, textVars, audioVars,
                  started, startPc, clock, now, msgCount, userStopped >>

OnError(s) ==
  /\ net[s] \in {"connecting", "open"}
  /\ net' = [net EXCEPT ![s] = "error"]
  /\ error' = "Connection error occurred."
  /\ isActive' = FALSE
  /\ isConnecting' = FALSE
  /\ UNCHANGED << captureVars, deviceVars, sessionPromiseRef, textVars, audioVars, started,
                  startPc, clock, now, msgCount, userStopped >>

OnClose(s) ==
  /\ net[s] \in {"connecting", "open", "closing", "error"}
  /\ net' = [net EXCEPT ![s] = "closed"]
  /\ isActive' = FALSE
  /\ isConnecting' = FALSE
  /\ UNCHANGED << captureVars, error, deviceVars, sessionPromiseRef, textVars, audioVars,
                  started, startPc, clock, now, msgCount, userStopped >>

\* toggleSession while active: the session is closed, the audio cleaned up.
\* The handler awaits the promise in sessionPromiseRef and does nothing before
\* it resolves; once it has resolved the handler resumes before any other
\* callback runs: one step.
ToggleStop ==
  /\ ~isConnecting
  /\ isActive
  /\ sessionPromiseRef \in ready
  /\ net' = IF sessionPromiseRef # 0 /\ net[sessionPromiseRef] = "open"
              THEN [net EXCEPT ![sessionPromiseRef] = "closing"]
              ELSE net
  /\ cleanupAudio
  /\ isActive' = FALSE
  /\ isConnecting' = FALSE
  /\ userStopped' = sessionPromiseRef
  /\ UNCHANGED << captureVars, error, sessionPromiseRef, textVars, started, startPc, clock,
                  now, msgCount, pending, schedOrder, intrSeq >>

\* A send that overtakes the frames issued before it
sendFirst(log, f) == << f >> \o log

\* s.sendRealtimeInput({ media: pcmBlob }): the frame is issued to the network
sendRealtimeInput(log, f) == Append(log, f)

\* The .then callbacks registered on one promise run in registration order.
RECURSIVE sendAll(_, _)
sendAll(log, q) ==
  IF q = <<>> THEN log ELSE sendAll(sendRealtimeInput(log, Head(q)), Tail(q))

\* The promise returned by ai.live.connect resolves with the session: the
\* callbacks waiting in .then run.
SessionReady(s) ==
  /\ net[s] = "open"
  /\ s \notin ready
  /\ ready' = ready \cup {s}
  /\ sent' = sendAll(sent, deferred[s])
  /\ deferred' = [deferred EXCEPT ![s] = <<>>]
  /\ UNCHANGED << capturing, frames, sessionVars, deviceVars, sessionPromiseRef,
                  textVars, audioVars, started, startPc, net, clock, now,
                  msgCount, userStopped >>

\* onaudioprocess of the script processor of session s: the frame is handed to
\* sessionPromise.then and the callback returns. at records the state of the
\* network session when the frame was submitted, late whether the send had
\* to wait for the promise.
Capture(s) ==
  /\ s \in capturing
  /\ s \in inOpen
  /\ frames < MaxFrames
  /\ frames' = frames + 1
  /\ LET f == [s |-> s, n |-> frames + 1, at |-> net[s], late |-> s \notin ready]
     IN IF s \in ready
          THEN /\ sent' = sendRealtimeInput(sent, f)
               /\ UNCHANGED deferred
          ELSE /\ deferred' = [deferred EXCEPT ![s] = Append(@, f)]
               /\ UNCHANGED sent
  /\ UNCHANGED << ready, capturing, sessionVars, deviceVars, sessionPromiseRef,
                  textVars, audioVars, started, startPc, net, clock, now,
                  msgCount, userStopped >>

\* new AudioContext throws after the microphone was obtained (k = "input": the
\* first constructor; k = "output": the second): the catch block runs.
AudioContextFail(s, k) ==
  /\ startPc[s] = "getUserMedia"
  /\ startPc' = [startPc EXCEPT ![s] = "failed"]
  /\ micStream' = s
  /\ micLive' = micLive \cup {s}
  /\ inOpen' = IF k = "output" THEN inOpen \cup {s} ELSE inOpen
  /\ error' = "Failed to connect."
  /\ isConnecting' = FALSE
  /\ UNCHANGED << captureVars, isActive, inputAudioContextRef,
                  outputAudioContextRef, outOpen, ctxOrigin, sessionPromiseRef,
                  textVars, audioVars, started, net, clock, now, msgCount,
                  userStopped >>

\* The promise returned by ai.live.connect rejects before the session opens:
\* no callback runs, and nothing in startSession awaits or catches the promise.
ConnectReject(s) ==
  /\ net[s] = "connecting"
  /\ net' = [net EXCEPT ![s] = "rejected"]
  /\ UNCHANGED << captureVars, sessionVars, deviceVars, sessionPromiseRef,
                  textVars, audioVars, started, startPc, clock, now, msgCount,
                  userStopped >>

\* The Clear button
ClearLog ==
  /\ transcriptions # <<>>
  /\ transcriptions' = <<>>
  /\ UNCHANGED << captureVars, sessionVars, deviceVars, sessionPromiseRef, audioVars, buffer,
                  frags, turnFrags, turns, appended, started, startPc, net,
                  clock, now, msgCount, userStopped >>

\* ------------------------------------------------------------ environment

\* The audio device renders: ctx.currentTime of the open contexts advances.
Tick ==
  /\ outOpen # {}
  /\ clock < MaxClock
  /\ clock' = clock + 1
  /\ UNCHANGED << captureVars, sessionVars, deviceVars, sessionPromiseRef, textVars, audioVars,
                  started, startPc, net, now, msgCount, userStopped >>

\* The wall clock read by Date.now() advances.
AdvanceNow ==
  /\ now < MaxNow
  /\ now' = now + 1
  /\ UNCHANGED << captureVars, sessionVars, deviceVars, sessionPromiseRef, textVars, audioVars,
                  started, startPc, net, clock, msgCount, userStopped >>

\* The stop action and the callbacks of the session lifecycle
Callbacks ==
  \/ ToggleStop
  \/ \E s \in Sessions : GetUserMediaOk(s)
  \/ \E s \in Sessions : GetUserMediaFail(s)
  \/ \E s \in Sessions : OnOpen(s)
  \/ \E s \in Sessions : SessionReady(s)
  \/ \E s \in Sessions : OnError(s)
  \/ \E s \in Sessions : OnClose(s)

\* The user's actions and the callbacks of the session lifecycle
Lifecycle ==
  \/ ToggleStart
  \/ Callbacks

\* The lifecycle alone, with the capture pipeline and the failures of the
\* audio contexts and of the connect: no message arrives.
NextLifecycle ==
  \/ startSession(MaxStarts)
  \/ Callbacks
  \/ \E s \in Sessions : Capture(s)
  \/ \E s \in Sessions, k \in {"input", "output"} : AudioContextFail(s, k)
  \/ \E s \in Sessions : ConnectReject(s)

SpecLifecycle == Init /\ [][NextLifecycle]_vars

\* Every request of a start gets its answer: getUserMedia settles (and the
\* contexts are created or throw), and the connect is answered by opened,
\* error or closed, or its promise rejects. Nothing is assumed of the user.
SpecLifecycleFair ==
  /\ SpecLifecycle
  /\ \A s \in Sessions :
       WF_vars(\/ GetUserMediaOk(s)
               \/ GetUserMediaFail(s)
               \/ \E k \in {"input", "output"} : AudioContextFail(s, k))
  /\ \A s \in Sessions :
       WF_vars(OnOpen(s) \/ OnError(s) \/ OnClose(s) \/ ConnectReject(s))

\* The playback scheduler: the service sends speech chunks and interruptions.
NextAudio ==
  \/ Lifecycle
  \/ Tick
  \/ \E s \in Sessions, m \in AudioMessages : OnMessage(s, m)
  \/ \E c \in MsgIds : DecodeDone(c)
  \/ \E c \in MsgIds : DecodeFail(c)
  \/ \E c \in MsgIds : Ended(c)

SpecAudio == Init /\ [][NextAudio]_vars

\* The audio device keeps rendering, every buffer that has played to its end
\* fires its 'ended' listener, and every decode in flight settles. Nothing is
\* assumed of the user or of the service.
SpecAudioFair ==
  /\ SpecAudio
  /\ WF_vars(Tick)
  /\ \A c \in MsgIds : WF_vars(Ended(c))
  /\ \A c \in MsgIds : WF_vars(DecodeDone(c) \/ DecodeFail(c))

\* The turn aggregator: the service sends transcript fragments and turn
\* boundaries.
NextText ==
  \/ Lifecycle
  \/ ClearLog
  \/ AdvanceNow
  \/ \E s \in Sessions, m \in TextMessages : OnMessage(s, m)

SpecText == Init /\ [][NextText]_vars

\* The scheduler and the aggregator fed by the same messages, at one instant
\* of the audio clock
NextFrame ==
  \/ Lifecycle
  \/ \E s \in Sessions, m \in FrameMessages : OnMessage(s, m)
  \/ \E c \in MsgIds : DecodeDone(c)
  \/ \E c \in MsgIds : DecodeFail(c)

SpecFrame == Init /\ [][NextFrame]_vars

\* Every message the service can send
Next ==
  \/ Lifecycle
  \/ ClearLog
  \/ Tick
  \/ AdvanceNow
  \/ \E s \in Sessions, m \in Messages : OnMessage(s, m)
  \/ \E c \in MsgIds : DecodeDone(c)
  \/ \E c \in MsgIds : Ended(c)

Spec == Init /\ [][Next]_vars

\* ------------------------------------------------------------------ claims

\* The source nodes that produced sound on a context and were never stopped
Played(c) == node[c].st \in {"live", "ended"} /\ node[c].begin >= 0

\* C1: the buffers scheduled since the last flush play in arrival order and
\* without overlap: a buffer that arrived later begins no earlier than the
\* end of every buffer that arrived before it.
C1_BackToBack ==
  \A i, j \in MsgIds :
    (/\ i < j
     /\ Played(i) /\ Played(j)
     /\ node[i].ctx = node[j].ctx
     /\ node[i].epoch = node[j].epoch)
    => node[i].begin + node[i].dur <= node[j].begin

\* C2: enqueue schedules the buffer at max(nextStartTime, current output
\* clock) and leaves nextStartTime at that start time plus the duration.
C2_Enqueue ==
  [][\A c \in MsgIds :
       (/\ node[c].st = "none" /\ node'[c].st # "none"
        /\ pending[c].ctx \in outOpen
        /\ ~pending[c].interrupted)
       => /\ node'[c].when = Max(nextStartTime, currentTime(pending[c].ctx))
          /\ nextStartTime' = node'[c].when + node'[c].dur]_vars

C4_NoScheduleAfterInterrupt ==
  [][\A c \in MsgIds :
       (node[c].st = "none" /\ node'[c].st # "none") => c > intrSeq]_vars

\* C5: chunks are scheduled in the order of their arrival.
C5_ArrivalOrder ==
  \A i, j \in 1..Len(schedOrder) : i < j => schedOrder[i] < schedOrder[j]

\* The text of a role's fragments, concatenated in arrival order and trimmed
TurnText(fs) == trim(Concat(fs))

\* The roles and texts a turn with fragments f is to emit, user first
ExpectedEntries(f) ==
  (IF TurnText(f.user) # <<>>
     THEN << [role |-> "user", text |-> TurnText(f.user)] >> ELSE <<>>)
  \o
  (IF TurnText(f.model) # <<>>
     THEN << [role |-> "model", text |-> TurnText(f.model)] >> ELSE <<>>)

RoleText(e) == [role |-> e.role, text |-> e.text]

\* C6: a turnComplete appends one entry per role whose trimmed text is not
\* empty, the user's first, each with the trimmed concatenation, in arrival
\* order, of the role's fragments since the previous turn boundary, the
\* fragments of the turnComplete message included.
C6_TurnEntries ==
  [][turns' = turns + 1 =>
       LET want == ExpectedEntries(turnFrags')
           n == Len(transcriptions)
       IN /\ Len(transcriptions') = n + Len(want)
          /\ SubSeq(transcriptions', 1, n) = transcriptions
          /\ \A k \in 1..Len(want) : RoleText(transcriptions'[n + k]) = want[k]
          /\ \A r \in {"user", "model"} :
               /\ Len(turnFrags'[r]) \in {Len(frags[r]), Len(frags[r]) + 1}
               /\ SubSeq(turnFrags'[r], 1, Len(frags[r])) = frags[r]]_vars

\* C6 witness: a turn was finalized with two user fragments and a model
\* fragment, and the log ends with the user's entry then the model's.
C6_Witness ==
  /\ turns >= 1 /\ appended = 2
  /\ buffer = NoText /\ frags = NoText
  /\ turnFrags.user = << <<"a">>, <<" ", "b">> >>
  /\ Len(turnFrags.model) >= 1
  /\ Len(transcriptions) >= 2
  /\ LET n == Len(transcriptions)
     IN /\ RoleText(transcriptions[n - 1]) =
             [role |-> "user", text |-> <<"a", " ", "b">>]
        /\ transcriptions[n].role = "model"

\* C7: a turnComplete leaves both buffers empty; when both trimmed texts are
\* empty it appends nothing; and no entry of the log has an empty text.
C7_TurnClears ==
  /\ [][turns' = turns + 1 =>
          /\ buffer' = NoText
          /\ (TurnText(turnFrags'.user) = <<>> /\ TurnText(turnFrags'.model) = <<>>
                => transcriptions' = transcriptions)]_vars
  /\ [](\A k \in 1..Len(transcriptions) : transcriptions[k].text # <<>>)

\* C7 witness: a turn whose only text was whitespace was finalized: nothing
\* was appended and the buffers are empty.
C7_Witness ==
  /\ turns >= 1 /\ appended = 0
  /\ turnFrags.user # <<>> /\ TurnText(turnFrags.user) = <<>>
  /\ TurnText(turnFrags.model) = <<>>
  /\ buffer = NoText

\* C8: the timestamps of the log are strictly increasing in log order.
C8_StrictTimestamps ==
  \A i, j \in 1..Len(transcriptions) :
    i < j => transcriptions[i].timestamp < transcriptions[j].timestamp

\* C9: after a user stop, until the next start, the source set is empty,
\* nextStartTime is 0 and the microphone and both contexts are released.
C9_StopIsFinal ==
  userStopped # 0 =>
    /\ sources = {}
    /\ nextStartTime = 0
    /\ inputAudioContextRef = 0 /\ outputAudioContextRef = 0 /\ micStream = 0
    /\ userStopped \notin (micLive \cup inOpen \cup outOpen)

\* C10: outside the connecting and active phases, no microphone stream is
\* live and no audio context is open.
C10_IdleHoldsNoDevice ==
  (~isActive /\ ~isConnecting) =>
    /\ micLive = {}
    /\ inOpen = {}
    /\ outOpen = {}

\* C11: when the latest start failed because an audio context could not be
\* created, the session is in the error phase (an error message, not
\* connecting, not active) and no device of the failed start is still held.
C11_FailedStartHoldsNothing ==
  \A s \in Sessions :
    (s = started /\ startPc[s] = "failed") =>
      /\ error # "null"
      /\ ~isActive /\ ~isConnecting
      /\ s \notin micLive
      /\ s \notin inOpen
      /\ s \notin outOpen

\* A session is in progress while its start awaits the microphone, or its
\* network session is connecting or open.
InProgress(s) ==
  startPc[s] = "getUserMedia" \/ net[s] \in {"connecting", "open"}

\* C12: at most one session is connecting or active at any time.
C12_OneSession ==
  Cardinality({ s \in Sessions : InProgress(s) }) <= 1

\* Every frame a capture callback has submitted, sent or still deferred
Submitted ==
  { sent[i] : i \in 1..Len(sent) } \cup
  UNION { { deferred[s][i] : i \in 1..Len(deferred[s]) } : s \in Sessions }

\* C13: every captured frame was submitted while its session was active:
\* after the opened signal and before the session closed or errored.
C13_CaptureOnlyWhileActive ==
  \A f \in Submitted : f.at = "open"

\* C14: the frames of a session are issued to the network in capture order,
\* the deferred ones included: the sent frames of a session carry increasing
\* capture numbers, the frames still deferred are in capture order and later
\* than every frame of the session already sent; and a capture callback never
\* waits: it can run whatever is deferred or sent.
C14_CaptureOrder ==
  /\ \A i, j \in 1..Len(sent) :
       (i < j /\ sent[i].s = sent[j].s) => sent[i].n < sent[j].n
  /\ \A s \in Sessions :
       /\ \A i, j \in 1..Len(deferred[s]) :
            i < j => deferred[s][i].n < deferred[s][j].n
       /\ \A i \in 1..Len(sent), j \in 1..Len(deferred[s]) :
            sent[i].s = s => sent[i].n < deferred[s][j].n
       /\ (s \in capturing /\ s \in inOpen /\ frames < MaxFrames)
            => ENABLED Capture(s)

\* C14 witness: two frames of one session were deferred and then sent, and a
\* third frame of that session was sent after them.
C14_Witness ==
  /\ Len(sent) = 3
  /\ sent[1].late /\ sent[2].late /\ ~sent[3].late
  /\ sent[1].s = sent[3].s /\ sent[2].s = sent[3].s
  /\ sent[1].n = 1 /\ sent[2].n = 2 /\ sent[3].n = 3

\* The error phase a network error signal leaves: the message of onerror is
\* shown, not connecting, not active
ErrorPhase ==
  error = "Connection error occurred." /\ ~isActive /\ ~isConnecting

\* C15: a network error signal of a session that is connecting or open leaves
\* the error phase with the message recorded; and the error phase is left
\* for connecting or active only by a start action of the user.
C15_ErrorIsFinal ==
  [][/\ (\E s \in Sessions :
            /\ net[s] \in {"connecting", "open"}
            /\ net'[s] = "error") => ErrorPhase'
     /\ (ErrorPhase /\ (isActive' \/ isConnecting')) => started' = started + 1]_vars

\* C16: a chunk whose decode fails is dropped in isolation: the step that
\* drops it leaves the phase, nextStartTime and the source set as they were,
\* unless its message carried an interrupted signal, which is then handled:
\* the scheduler is flushed.
C16_DropInIsolation ==
  [][\A c \in MsgIds :
       DecodeFail(c) =>
         /\ UNCHANGED sessionVars
         /\ IF pending[c].interrupted
              THEN sources' = {} /\ nextStartTime' = 0
              ELSE UNCHANGED << nextStartTime, sources >>]_vars

\* C17: the transcript buffers are per-session: when a session starts, both
\* buffers are empty.
C17_BuffersPerSession ==
  [][started' = started + 1 => buffer = NoText]_vars

\* The transcript fields of a message, and its audio fields
HasText(m) ==
  m.inputTranscription # <<>> \/ m.outputTranscription # <<>> \/ m.turnComplete
HasAudio(m) == m.audio # <<>> \/ m.interrupted

\* The message without its audio fields
TextOnly(m) == [m EXCEPT !.audio = <<>>, !.interrupted = FALSE]

\* The buffers after a message, as its transcript fields alone determine them
TextEffect(m) ==
  bufferAfter([user |-> appendText(buffer.user, m.inputTranscription),
               model |-> appendText(buffer.model, m.outputTranscription)], m)

\* C18: a message without transcript fields (an interruption, a chunk) leaves
\* the buffers and the log unchanged; a message without audio fields (a
\* fragment, a turnComplete) leaves nextStartTime, the source set and the
\* decodes in flight unchanged; whatever a message carries, its audio fields
\* do not change what its transcript fields do to the buffers; and the
\* resumption of a decode, with the interrupted signal it handles, leaves the
\* buffers and the log unchanged.
C18_Independent ==
  [][/\ \A s \in Sessions, m \in FrameMessages :
          OnMessage(s, m) =>
            /\ ~HasText(m) => UNCHANGED << buffer, transcriptions >>
            /\ ~HasAudio(m) => UNCHANGED << nextStartTime, sources, node, pending >>
            /\ buffer' = TextEffect(TextOnly(m))
            /\ ~m.turnComplete => UNCHANGED transcriptions
     /\ \A c \in MsgIds :
          (DecodeDone(c) \/ DecodeFail(c)) => UNCHANGED << buffer, transcriptions >>]_vars

\* C18 witness: a fragment was buffered, a chunk was scheduled, and then an
\* interruption was handled: the scheduler is flushed and the fragment is
\* still in the buffer.
C18_Witness ==
  /\ intrSeq = msgCount /\ msgCount = 2
  /\ node[1].st = "stopped"
  /\ sources = {} /\ nextStartTime = 0
  /\ buffer.user = <<"a">>

\* C19: every handle registered is eventually removed from the set, by its
\* completion or by a flush, also when it was registered on an output
\* context that was already closed.
C19_HandlesRemoved ==
  \A c \in MsgIds :
    (c \in sources /\ node[c].ctx \notin outOpen) ~> (c \notin sources)

\* C20: a session never stays connecting forever: whenever the state is
\* connecting, it eventually is not.
C20_ConnectingEnds ==
  isConnecting ~> ~isConnecting

====
